---- MODULE Spec2Model ----
(***************************************************************************)
(* The OAuth2 credential lifecycle of mf-cloud-mcp-server: the token store *)
(* (token-store.ts, two variants in the source), the OAuth client          *)
(* (oauth-client.ts), the local callback server (callback-server.ts, two   *)
(* variants in the source), the AuthManager (auth-manager.ts) and the      *)
(* mf_auth_status and mf_auth_login tool handlers (tools/common.ts).       *)
(*                                                                         *)
(* Every asynchronous function is cut at its awaits: one action per        *)
(* continuation.  Each caller in Callers runs one call at a time; calls of *)
(* different callers interleave at the awaits, as on the Node event loop.  *)
(*                                                                         *)
(* Spec: calls follow one another (one caller).  LiveSpec: Spec with the   *)
(* clock and the timers fair.  ProgressSpec: LiveSpec with the disk and    *)
(* the bind fair.  ConcSpec: two callers interleaved.  ExpirySpec:         *)
(* isExpired around its boundary.  ApiSpec: requests of MfApiClient        *)
(* (client/mf-api-client.ts).  PermSpec: saves onto a token file and into  *)
(* a directory that existed before.  SeqSpec: a second call after the      *)
(* first has completed, the file possibly removed in between.              *)
(* RedirectSpec: the redirect URI taken from the environment.              *)
(***************************************************************************)
EXTENDS Integers, Sequences, FiniteSets, TLC

VARIABLES
    now,             \* Date.now(), epoch milliseconds
    file,            \* content of the token file
    callbackServer,  \* which callback-server.ts variant is linked
    tokenStore,      \* which token-store.ts variant is linked
    fileMode,        \* permission bits of the token file
    dirMode,         \* permission bits of the token file's directory
    redirectUri,     \* the configured redirect URI (MF_REDIRECT_URI)
    orphan,          \* a server of an ended attempt still holds the port
    call             \* per caller: the locals of its call in progress

vars ==
    <<now, file, callbackServer, tokenStore, fileMode, dirMode, redirectUri,
      orphan, call>>

(***************************************************************************)
(* Program constants                                                       *)
(***************************************************************************)
EXPIRY_BUFFER_MS == 60000

CALLBACK_TIMEOUT_MS == 120000

MF_AUTH_BASE == "https://api.biz.moneyforward.com"

ALL_SCOPES == "office_setting:write user_setting:write transaction:write report:write mfc/invoice/data.read mfc/invoice/data.write"

(***************************************************************************)
(* Bounds of the model                                                     *)
(***************************************************************************)
MaxTicks == 2

MaxNow == MaxTicks * EXPIRY_BUFFER_MS

\* instants within MaxSkew milliseconds of the expiry boundary (ExpirySpec)
MaxSkew == 3

Callers == {"c1", "c2"}

\* the caller of the specification in which calls follow one another
Solo == {"c1"}

Nonces == {"s1", "s2"}

\* JavaScript null and undefined, as values of string-typed parameters
NULL == "<null>"

Undefined == "<undefined>"

\* the absent value of record-typed locals
Null == [null |-> TRUE]

Truthy(s) == s \notin {NULL, Undefined, ""}

(***************************************************************************)
(* TokenData and the provider's token responses                            *)
(***************************************************************************)
TokenData(a, r, e, s) ==
    [access_token |-> a, refresh_token |-> r, expires_at |-> e, scope |-> s]

\* expires_in values (seconds) the provider may answer with
ExpiresIn == {60, 180}

\* the JSON bodies of successful token-endpoint responses: the provider mints
\* opaque tokens of no fixed length, here one pair per grant type and lifetime
TokenResponses(grant) ==
    {[access_token |-> IF grant = "refresh_token"
                       THEN (IF e = 60 THEN "at1" ELSE "at1-long")
                       ELSE (IF e = 60 THEN "at2" ELSE "at2-long"),
      refresh_token |-> IF grant = "refresh_token" THEN "rt1" ELSE "rt2",
      expires_in |-> e, scope |-> ALL_SCOPES] : e \in ExpiresIn}

\* non-success statuses of the token endpoint; 0 stands for a rejected fetch
FailureStatuses == {400, 0}

Err(msg, status) == [message |-> msg, status |-> status]

\* the texts of non-success answers of the token endpoint
ErrorBodies == {"invalid_grant"}

\* what fetch resolved with: res.ok with res.json(), or !res.ok with res.text()
Ok(json) == [ok |-> TRUE, status |-> 200, json |-> json]

NotOk(st, text) == [ok |-> FALSE, status |-> st, text |-> text]

\* Error(`Token exchange failed (${res.status}): ${text}`)
TokenExchangeFailed(st, text) ==
    [message |-> "Token exchange failed", status |-> st, body |-> text]

\* faulty variant: a failed refresh throws the error of a failed exchange
TokenRefreshFailed_AsExchange(st, text) == TokenExchangeFailed(st, text)

\* Error(`Token refresh failed (${res.status}): ${text}`)
TokenRefreshFailed(st, text) ==
    [message |-> "Token refresh failed", status |-> st, body |-> text]

(***************************************************************************)
(* TokenStore                                                              *)
(***************************************************************************)
\* faulty variant: the scope member is left out of the text
JSONstringify_NoScope(t) ==
    << <<"access_token", t.access_token>>, <<"refresh_token", t.refresh_token>>,
       <<"expires_at", t.expires_at>> >>

\* JSON.stringify(tokens, null, 2): the object as its list of members
JSONstringify(t) ==
    << <<"access_token", t.access_token>>, <<"refresh_token", t.refresh_token>>,
       <<"expires_at", t.expires_at>>, <<"scope", t.scope>> >>

\* the value of subtracting from undefined: every comparison with it is false
NaN == -1

\* o[name] of a parsed object: undefined when the object has no such member
Member(txt, name, undef) ==
    IF \E i \in 1..Len(txt) : txt[i][1] = name
    THEN txt[CHOOSE i \in 1..Len(txt) : txt[i][1] = name][2]
    ELSE undef

\* JSON.parse of the text of an object, read as TokenData; expires_at of an
\* object without that member is undefined, NaN in arithmetic
JSONparse(txt) ==
    [access_token |-> Member(txt, "access_token", Undefined),
     refresh_token |-> Member(txt, "refresh_token", Undefined),
     expires_at |-> Member(txt, "expires_at", NaN),
     scope |-> Member(txt, "scope", Undefined)]

Missing == [kind |-> "missing"]

\* a text JSON.parse throws on, of n bytes: two texts overlaid, or cut short
Garbled(n) == [kind |-> "partial", len |-> n]

\* the file as open(path, 'w') leaves it: truncated to no bytes
Partial == Garbled(0)

Written(t) == [kind |-> "json", text |-> JSONstringify(t)]

\* valid JSON of another shape: the object without members
Foreign == [kind |-> "json", text |-> <<>>]

RECURSIVE Digits(_)
Digits(n) == IF n < 10 THEN 1 ELSE 1 + Digits(n \div 10)

\* the bytes of a JSON text: braces, and per member its name and its value
RECURSIVE TextLen(_)
TextLen(txt) ==
    IF txt = <<>> THEN 2
    ELSE Len(Head(txt)[1])
         + (IF Head(txt)[1] = "expires_at" THEN Digits(Head(txt)[2])
            ELSE Len(Head(txt)[2]))
         + TextLen(Tail(txt))

FileLen(f) ==
    IF f.kind = "json" THEN TextLen(f.text)
    ELSE IF f.kind = "partial" THEN f.len ELSE 0

\* write(fd, data) at offset 0 of a file opened without append: the bytes of
\* new replace the first bytes of old, what old has beyond them stays
Overlay(new, old) ==
    IF FileLen(old) <= FileLen(new) THEN new ELSE Garbled(FileLen(old))

isValidTokenData(v) ==
    /\ v.access_token # Undefined
    /\ v.refresh_token # Undefined
    /\ v.expires_at # NaN
    /\ v.scope # Undefined

\* TokenStore.load: null when the file is missing or does not parse; the
\* validating variant also answers null for JSON of another shape
load(f) ==
    IF f.kind # "json" THEN Null
    ELSE IF tokenStore = "strict" /\ ~isValidTokenData(JSONparse(f.text)) THEN Null
    ELSE JSONparse(f.text)

\* faulty variant: the boundary instant counts as not expired
isExpired_Exclusive(tokens, t) ==
    tokens.expires_at # NaN /\ tokens.expires_at - EXPIRY_BUFFER_MS < t

\* faulty variant: the margin is twice the buffer
isExpired_WideMargin(tokens, t) ==
    tokens.expires_at # NaN /\ tokens.expires_at - 2 * EXPIRY_BUFFER_MS <= t

\* TokenStore.isExpired at the instant t: expired from 60 seconds before
\* expires_at on
isExpired(tokens, t) ==
    tokens.expires_at # NaN /\ tokens.expires_at - EXPIRY_BUFFER_MS <= t

(***************************************************************************)
(* OAuthClient builders and response mapping                               *)
(***************************************************************************)
\* MF_REDIRECT_URI ?? "http://localhost:3456/callback"
DEFAULT_REDIRECT_URI == "http://localhost:3456/callback"

RedirectUris == {DEFAULT_REDIRECT_URI, "http://localhost:8080/callback"}

\* new URL(uri).port
PortOf(uri) == IF uri = DEFAULT_REDIRECT_URI THEN 3456 ELSE 8080

\* authorize(port: number = 3456)
DEFAULT_PORT == 3456

Config ==
    [clientId |-> "client-id", clientSecret |-> "client-secret",
     redirectUri |-> redirectUri]

\* faulty variant: after the first instant the URL carries a state kept from before
buildAuthorizationUrl_Cached(state) ==
    [base |-> MF_AUTH_BASE, path |-> "/authorize", client_id |-> Config.clientId,
     redirect_uri |-> Config.redirectUri, response_type |-> "code",
     scope |-> ALL_SCOPES, state |-> IF now = 0 THEN state ELSE "s1"]

buildAuthorizationUrl(state) ==
    [base |-> MF_AUTH_BASE, path |-> "/authorize", client_id |-> Config.clientId,
     redirect_uri |-> Config.redirectUri, response_type |-> "code",
     scope |-> ALL_SCOPES, state |-> state]

buildTokenRequestBody(code) ==
    [grant_type |-> "authorization_code", code |-> code,
     client_id |-> Config.clientId, client_secret |-> Config.clientSecret,
     redirect_uri |-> Config.redirectUri]

buildRefreshRequestBody(refreshToken) ==
    [grant_type |-> "refresh_token", refresh_token |-> refreshToken,
     client_id |-> Config.clientId, client_secret |-> Config.clientSecret]

\* faulty variant: expires_in is added as if it were milliseconds
FromResponse_Seconds(json, t) ==
    TokenData(json.access_token, json.refresh_token, t + json.expires_in, json.scope)

\* the TokenData exchangeCode and refreshToken build from a success response
FromResponse(json, t) ==
    TokenData(json.access_token, json.refresh_token,
              t + json.expires_in * 1000, json.scope)

(***************************************************************************)
(* The locals of one call                                                  *)
(***************************************************************************)
Pending == [kind |-> "pending"]

Returned(v) == [kind |-> "returned", value |-> v]

Threw(e) == [kind |-> "threw", error |-> e]

IdleCall ==
    [pc |-> "idle", op |-> "none", stored |-> Null, refreshed |-> Null,
     saving |-> Null, inTry |-> FALSE, state |-> NULL, authUrl |-> Null,
     order |-> 0, server |-> "none", port |-> 0, expectedState |-> Undefined,
     timer |-> -1,
     settled |-> "pending", cb |-> Null, code |-> NULL, http |-> 0,
     flowError |-> Null, tokens |-> Null, caught |-> Null, ret |-> Pending,
     toolResult |-> Null, body |-> Null, res |-> Null, method |-> NULL,
     tokens_h |-> Null, h |-> Null, fetched |-> 0, apiRes |-> Null, log |-> <<>>]

\* one entry of a call's log: the collaborator it called and the argument
Ev(name, arg) == [ev |-> name, arg |-> arg]

Log(c, name, arg) == [c EXCEPT !.log = Append(@, Ev(name, arg))]

(***************************************************************************)
(* MfApiClient: headers() awaits the token provider, request() awaits      *)
(* headers() and then fetch                                                *)
(***************************************************************************)
Methods == {"GET", "POST", "PUT", "DELETE"}

\* non-ok statuses of the remote API
ApiFailureStatuses == {401, 404, 500}

StatusText(st) ==
    IF st = 200 THEN "OK"
    ELSE IF st = 401 THEN "Unauthorized"
    ELSE IF st = 404 THEN "Not Found"
    ELSE "Internal Server Error"

\* what fetch(url, init) resolves with
ApiAnswers ==
    {[ok |-> TRUE, status |-> 200, statusText |-> StatusText(200), json |-> "data"]}
    \cup {[ok |-> FALSE, status |-> st, statusText |-> StatusText(st), text |-> "error"] :
            st \in ApiFailureStatuses}

MfApiError(status, statusText, body) ==
    [name |-> "MfApiError", message |-> "MF API error", status |-> status,
     statusText |-> statusText, body |-> body]

\* faulty variant: the header carries the token read from the store
headers_Stored(c, tokens) ==
    [c EXCEPT !.tokens_h = tokens,
              !.h = [Authorization |-> <<"Bearer", IF c.stored # Null
                                                    THEN c.stored.access_token
                                                    ELSE tokens.access_token>>,
                     ContentType |-> "application/json"]]

\* headers() after getToken() resolved with tokens
headers(c, tokens) ==
    [c EXCEPT !.tokens_h = tokens,
              !.h = [Authorization |-> <<"Bearer", tokens.access_token>>,
                     ContentType |-> "application/json"]]

\* request() after headers() settled: fetch is called with the headers; a
\* rejection of the token provider rejects the request
Request_Headers(c, r) ==
    IF r.kind = "returned"
    THEN [headers(c, r.value) EXCEPT !.pc = "fetch", !.fetched = @ + 1]
    ELSE [c EXCEPT !.pc = "done", !.ret = r]

\* faulty variant: the text of a non-ok response is returned as the result
Request_Fetched_NoThrow(c, res) ==
    [c EXCEPT !.pc = "done", !.apiRes = res,
              !.ret = Returned(IF res.ok THEN res.json ELSE res.text)]

\* request() after fetch resolved with res
Request_Fetched(c, res) ==
    [c EXCEPT !.pc = "done", !.apiRes = res,
              !.ret = IF res.ok THEN Returned(res.json)
                      ELSE Threw(MfApiError(res.status, res.statusText, res.text))]

(***************************************************************************)
(* tools/common.ts: the mf_auth_login handler around doInteractiveAuth     *)
(***************************************************************************)
LoginResult(r) ==
    IF r.kind = "returned"
    THEN [isError |-> FALSE,
          text |-> "Authentication successful. You can now use MF Cloud tools.",
          detail |-> ""]
    ELSE [isError |-> TRUE, text |-> "Authentication failed: ",
          detail |-> r.error.message]

\* the mf_auth_status handler around getAuthStatus: toISOString throws a
\* RangeError on the Date of an undefined expiresAt
StatusResult(status) ==
    IF ~status.authenticated
    THEN [isError |-> FALSE,
          text |-> "Not authenticated. Run mf_auth_login to authenticate.",
          detail |-> ""]
    ELSE IF status.expiresAt = NaN
    THEN [isError |-> TRUE, text |-> "RangeError: Invalid time value", detail |-> ""]
    ELSE [isError |-> FALSE, text |-> "Authenticated. Token expires at: ",
          detail |-> status.scope]

\* the method of AuthManager completes with r: the tool handler, if any, wraps
\* it; the API client goes on with its request
Complete(c, r) ==
    IF c.op = "request" THEN Request_Headers(c, r) ELSE
    [c EXCEPT !.pc = "done", !.ret = r,
              !.toolResult = IF c.op = "mf_auth_login" THEN LoginResult(r)
                             ELSE IF c.op = "mf_auth_status" THEN StatusResult(r.value)
                             ELSE Null]

(***************************************************************************)
(* OAuthClient.authorize up to its await of waitForCallback(port)          *)
(***************************************************************************)
\* waitForCallback up to the listen call: the server and (v2) the timer exist
waitForCallback(c, expectedState, variant, t) ==
    [c EXCEPT !.pc = "binding", !.server = "binding",
              !.expectedState = expectedState,
              !.timer = IF variant = "v2" THEN t + CALLBACK_TIMEOUT_MS ELSE -1,
              !.settled = "pending", !.cb = Null, !.code = NULL, !.http = 0]

\* authorize generates the state n, builds the URL with it, and calls
\* waitForCallback(port): the second argument is not passed.  The caller,
\* doInteractiveAuth, passes no port, so the port is the default
authorize(c, n, variant, t) ==
    waitForCallback([c EXCEPT !.state = n, !.authUrl = buildAuthorizationUrl(n),
                              !.port = DEFAULT_PORT],
                    Undefined, variant, t)

\* TokenStore.save up to its first await
save(c, tokens) == Log([c EXCEPT !.pc = "mkdir", !.saving = tokens], "save", tokens)

\* OAuthClient.refreshToken up to its await of fetch
refreshToken(c, rt) ==
    Log([c EXCEPT !.pc = "refresh", !.body = buildRefreshRequestBody(rt), !.res = Null],
        "refreshToken", [refresh_token |-> rt])

\* OAuthClient.exchangeCode up to its await of fetch
exchangeCode(c, code) ==
    [c EXCEPT !.pc = "exchange", !.body = buildTokenRequestBody(code), !.res = Null]

(***************************************************************************)
(* AuthManager                                                             *)
(***************************************************************************)
\* faulty variant: a stored TokenSet that is not expired is returned instead
doInteractiveAuth_IfNeeded(c, n, variant, t) ==
    IF load(file) # Null /\ isValidTokenData(load(file)) /\ ~isExpired(load(file), t)
    THEN Complete(c, Returned(load(file)))
    ELSE authorize(Log([c EXCEPT !.inTry = FALSE], "authorize", Null), n, variant, t)

\* doInteractiveAuth up to its await of authorize: the store is not read
doInteractiveAuth(c, n, variant, t) ==
    authorize(Log([c EXCEPT !.inTry = FALSE], "authorize", Null), n, variant, t)

\* expiresAt: null
NullInstant == -2

AuthStatus(a, e, s) == [authenticated |-> a, expiresAt |-> e, scope |-> s]

\* faulty variant: an expired stored TokenSet is refreshed by the status query
GetAuthStatus_Loaded_Refreshes(c, stored, t) ==
    LET c1 == Log([c EXCEPT !.stored = stored], "load", Null) IN
    IF stored = Null THEN Complete(c1, Returned(AuthStatus(FALSE, NullInstant, NULL)))
    ELSE IF ~isExpired(stored, t)
    THEN Complete(c1, Returned(AuthStatus(TRUE, stored.expires_at, stored.scope)))
    ELSE refreshToken([c1 EXCEPT !.inTry = TRUE], stored.refresh_token)

\* faulty variant: expiry is judged at the instant the manager was constructed
GetAuthStatus_Loaded_AtStart(c, stored, t) ==
    LET c1 == Log([c EXCEPT !.stored = stored], "load", Null) IN
    IF stored = Null THEN Complete(c1, Returned(AuthStatus(FALSE, NullInstant, NULL)))
    ELSE Complete(c1, Returned(AuthStatus(~isExpired(stored, 0), stored.expires_at,
                                          stored.scope)))

\* getAuthStatus after load resolved
GetAuthStatus_Loaded(c, stored, t) ==
    LET c1 == Log([c EXCEPT !.stored = stored], "load", Null) IN
    IF stored = Null THEN Complete(c1, Returned(AuthStatus(FALSE, NullInstant, NULL)))
    ELSE Complete(c1, Returned(AuthStatus(~isExpired(stored, t), stored.expires_at,
                                          stored.scope)))

\* faulty variant: doInteractiveAuth returns the tokens without saving them
DoInteractiveAuth_Authorized_NoSave(c, tokens) ==
    Complete([c EXCEPT !.tokens = tokens], Returned(tokens))

\* doInteractiveAuth after authorize resolved: save(tokens), return follows
DoInteractiveAuth_Authorized(c, tokens) == save([c EXCEPT !.tokens = tokens], tokens)

\* faulty variant: the error of the flow is replaced by a generic one
DoInteractiveAuth_Rejected_Generic(c, err) ==
    Complete(c, Threw(Err("Authentication failed", 0)))

\* authorize rejected: doInteractiveAuth has no handler, and getValidToken
\* calls it outside its try block, so the call throws the same error
DoInteractiveAuth_Rejected(c, err) == Complete(c, Threw(err))

\* faulty variant: a stored TokenSet is refreshed whether or not it is expired
GetValidToken_Loaded_AlwaysRefresh(c, stored, n, variant, t) ==
    LET c1 == Log([c EXCEPT !.stored = stored], "load", Null) IN
    IF stored = Null THEN doInteractiveAuth(c1, n, variant, t)
    ELSE refreshToken([c1 EXCEPT !.inTry = TRUE], stored.refresh_token)

\* getValidToken after load resolved
GetValidToken_Loaded(c, stored, n, variant, t) ==
    LET c1 == Log([c EXCEPT !.stored = stored], "load", Null) IN
    IF stored = Null THEN doInteractiveAuth(c1, n, variant, t)
    ELSE IF ~isExpired(stored, t) THEN Complete(c1, Returned(stored))
    ELSE refreshToken([c1 EXCEPT !.inTry = TRUE], stored.refresh_token)

\* getValidToken after refreshToken resolved
GetValidToken_Refreshed(c, refreshed) ==
    save([c EXCEPT !.refreshed = refreshed], refreshed)

\* faulty variant: the catch block writes the stored TokenSet back before giving up
GetValidToken_Catch_SavesStored(c, err, n, variant, t) ==
    save([c EXCEPT !.caught = err, !.inTry = FALSE], c.stored)

\* the catch block of getValidToken
GetValidToken_Catch(c, err, n, variant, t) ==
    doInteractiveAuth([c EXCEPT !.caught = err], n, variant, t)

\* faulty variant: no try block, every rejection is thrown to the caller
Rejected_NoCatch(c, err, n, variant, t) == Complete(c, Threw(err))

\* a rejection reaching the call: caught inside the try block, thrown otherwise
Rejected(c, err, n, variant, t) ==
    IF c.inTry THEN GetValidToken_Catch(c, err, n, variant, t)
    ELSE Complete(c, Threw(err))

\* save resolved: getValidToken returns refreshed, doInteractiveAuth returns tokens
Saved(c) == Complete(c, Returned(c.saving))

(***************************************************************************)
(* callback-server.ts: the request handler, the timer, the error listener  *)
(***************************************************************************)
Requests ==
    [path : {"/callback", "/other"}, code : {NULL, "code1"},
     error : {NULL, "access_denied"}, state : {NULL} \cup Nonces]

\* faulty variant: a settled promise is settled again
Reject_Again(c, req, outcome, err) ==
    DoInteractiveAuth_Rejected(
        [c EXCEPT !.settled = outcome, !.cb = req, !.flowError = err], err)

\* reject(err) of the listener's promise: authorize throws err; on a settled
\* promise reject does nothing
Reject(c, req, outcome, err) ==
    IF c.settled # "pending" THEN c
    ELSE DoInteractiveAuth_Rejected(
             [c EXCEPT !.settled = outcome, !.cb = req, !.flowError = err], err)

\* exchangeCode threw: authorize throws err
ExchangeCode_Rejected(c, err) ==
    DoInteractiveAuth_Rejected([c EXCEPT !.flowError = err], err)

\* resolve({code, server}): authorize resumes, closes the server and calls
\* exchangeCode(code), which awaits the token endpoint; on a settled promise
\* resolve does nothing
Authorize_Resumed(c, req) ==
    IF c.settled # "pending" THEN c
    ELSE exchangeCode([c EXCEPT !.settled = "Succeeded", !.cb = req,
                                !.code = req.code, !.server = "closed"], req.code)

\* the variant without state check, timer or close
HandlerV1(c, req) ==
    IF req.path = "/callback" /\ Truthy(req.error)
    THEN Reject([c EXCEPT !.http = 400], req, "Denied",
                Err("OAuth error: access_denied", 0))
    ELSE IF req.path = "/callback" /\ Truthy(req.code)
    THEN Authorize_Resumed([c EXCEPT !.http = 200], req)
    ELSE [c EXCEPT !.http = 404]

\* faulty variant: the state is compared before the error parameter is read
HandlerV2_StateFirst(c, req) ==
    IF req.path = "/callback" /\ req.state # c.expectedState
    THEN Reject([c EXCEPT !.http = 400, !.timer = -1, !.server = "closed"], req,
                "StateMismatch", Err("OAuth state mismatch - possible CSRF attack", 0))
    ELSE IF req.path = "/callback" /\ Truthy(req.error)
    THEN Reject([c EXCEPT !.http = 400, !.timer = -1, !.server = "closed"], req,
                "Denied", Err("OAuth authorization was denied", 0))
    ELSE IF req.path = "/callback" /\ Truthy(req.code)
    THEN Authorize_Resumed([c EXCEPT !.http = 200, !.timer = -1], req)
    ELSE [c EXCEPT !.http = 404]

\* the variant with state check, timer and close
HandlerV2(c, req) ==
    IF req.path = "/callback" /\ Truthy(req.error)
    THEN Reject([c EXCEPT !.http = 400, !.timer = -1, !.server = "closed"], req,
                "Denied", Err("OAuth authorization was denied", 0))
    ELSE IF req.path = "/callback" /\ req.state # c.expectedState
    THEN Reject([c EXCEPT !.http = 400, !.timer = -1, !.server = "closed"], req,
                "StateMismatch", Err("OAuth state mismatch - possible CSRF attack", 0))
    ELSE IF req.path = "/callback" /\ Truthy(req.code)
    THEN Authorize_Resumed([c EXCEPT !.http = 200, !.timer = -1], req)
    ELSE [c EXCEPT !.http = 404]

\* faulty variant: the path of the request is not looked at
Handler_AnyPath(c, req, variant) ==
    IF variant = "v1" THEN HandlerV1(c, [req EXCEPT !.path = "/callback"])
                      ELSE HandlerV2(c, [req EXCEPT !.path = "/callback"])

\* the request handler of the listener: every request with another path than
\* /callback falls through to the 404 answer
Handler(c, req, variant) ==
    IF variant = "v1" THEN HandlerV1(c, req) ELSE HandlerV2(c, req)

\* the timer callback (v2 only)
OnTimeout(c) ==
    Reject([c EXCEPT !.server = "closed", !.timer = -1], Null, "TimedOut",
           Err("OAuth callback timed out after 2 minutes", 0))

\* faulty variant: listen succeeds whether or not the port is taken
PortFree_Always == TRUE

\* listen(port) succeeds only on a port no server of this process holds
PortFree == ~orphan /\ \A q \in Callers : call[q].server # "listening"

\* the server's 'error' event: the bind failed, on a port taken by a server
\* of this process or for a reason outside it
OnServerError(c, variant) ==
    Reject([c EXCEPT !.server = "none",
                     !.timer = IF variant = "v2" THEN -1 ELSE c.timer],
           Null, "BindFailed",
           Err(IF PortFree THEN "listen EACCES" ELSE "listen EADDRINUSE", 0))

(***************************************************************************)
(* Actions                                                                 *)
(***************************************************************************)
Ops == {"getValidToken", "mf_auth_login", "mf_auth_status"}

\* the permission bits of the token file when this program created it; the
\* file that does not exist has none
CreatedMode(f) == IF f.kind = "missing" THEN "none" ELSE "0600"

\* the permission bits of the directory when this program created it; without
\* a token file the directory has not been created
CreatedDirMode(f) == IF f.kind = "missing" THEN "none" ELSE "0700"

\* mkdir(dir, {recursive: true, mode: 0o700}): the mode applies to a directory
\* the call creates; on an existing directory the call does nothing
MadeDir(mode) == IF mode = "none" THEN "0700" ELSE mode

\* open(path, 'w', 0o600): the mode applies to a file the call creates, an
\* existing file keeps its permission bits
Opened(f, mode) == IF f.kind = "missing" THEN "0600" ELSE mode

InitialExpiresAt == {0, EXPIRY_BUFFER_MS, 3 * EXPIRY_BUFFER_MS}

Init ==
    /\ now = 0
    /\ file \in {Missing, Foreign} \cup
                {Written(TokenData("at0", "rt0", e, ALL_SCOPES)) : e \in InitialExpiresAt}
    /\ callbackServer \in {"v1", "v2"}
    /\ tokenStore \in {"strict", "lax"}
    /\ fileMode = CreatedMode(file)
    /\ dirMode = CreatedDirMode(file)
    /\ redirectUri = DEFAULT_REDIRECT_URI
    /\ orphan = FALSE
    /\ call = [p \in Callers |-> IdleCall]

Tick ==
    /\ now < MaxNow
    /\ now' = now + EXPIRY_BUFFER_MS
    /\ UNCHANGED <<file, callbackServer, tokenStore, fileMode, dirMode,
                   redirectUri, orphan, call>>

\* a tool call arrives: an API tool calls getValidToken, mf_auth_login calls
\* doInteractiveAuth; both run to their first await
Call(p, op) ==
    /\ call[p].pc \in {"idle", "done"}
    /\ orphan' = (orphan \/ call[p].server = "listening")
    /\ IF op = "getValidToken"
       THEN call' = [call EXCEPT ![p] = [IdleCall EXCEPT !.pc = "load", !.op = op]]
       ELSE IF op = "mf_auth_status"
       THEN call' = [call EXCEPT ![p] = [IdleCall EXCEPT !.pc = "statusLoad", !.op = op]]
       ELSE \E n \in Nonces :
              call' = [call EXCEPT ![p] =
                         doInteractiveAuth([IdleCall EXCEPT !.op = op], n,
                                           callbackServer, now)]
    /\ UNCHANGED <<now, file, callbackServer, tokenStore, fileMode, dirMode,
                   redirectUri>>

\* an API tool calls get, post, put or delete of the API client: request()
\* runs to the await of load inside getValidToken
ApiCall(p, method) ==
    /\ call[p].pc \in {"idle", "done"}
    /\ orphan' = (orphan \/ call[p].server = "listening")
    /\ call' = [call EXCEPT ![p] =
                  [IdleCall EXCEPT !.pc = "load", !.op = "request", !.method = method]]
    /\ UNCHANGED <<now, file, callbackServer, tokenStore, fileMode, dirMode,
                   redirectUri>>

\* the remote API answers, or the fetch fails
ApiResponse(p) ==
    /\ call[p].pc = "fetch"
    /\ \/ \E res \in ApiAnswers :
            call' = [call EXCEPT ![p] = Request_Fetched(call[p], res)]
       \/ call' = [call EXCEPT ![p] =
                     [@ EXCEPT !.pc = "done", !.ret = Threw(Err("fetch failed", 0))]]
    /\ UNCHANGED <<now, file, callbackServer, tokenStore, fileMode, dirMode,
                   redirectUri, orphan>>

Load(p) ==
    /\ call[p].pc = "load"
    /\ \E n \in Nonces :
         call' = [call EXCEPT ![p] =
                    GetValidToken_Loaded(call[p], load(file), n, callbackServer, now)]
    /\ UNCHANGED <<now, file, callbackServer, tokenStore, fileMode, dirMode,
                   redirectUri, orphan>>

StatusLoad(p) ==
    /\ call[p].pc = "statusLoad"
    /\ call' = [call EXCEPT ![p] = GetAuthStatus_Loaded(call[p], load(file), now)]
    /\ UNCHANGED <<now, file, callbackServer, tokenStore, fileMode, dirMode,
                   redirectUri, orphan>>

\* history: the successful answers of the token endpoint are numbered in the
\* order in which they arrive
LastOrder ==
    CHOOSE n \in {call[q].order : q \in Callers} :
        \A q \in Callers : call[q].order <= n

\* the token endpoint answers the refresh request
RefreshResponse(p) ==
    /\ call[p].pc = "refresh"
    /\ \/ \E json \in TokenResponses("refresh_token") :
            call' = [call EXCEPT ![p] =
                       GetValidToken_Refreshed([call[p] EXCEPT !.res = Ok(json),
                                               !.order = LastOrder + 1],
                                               FromResponse(json, now))]
       \/ \E st \in FailureStatuses \ {0}, text \in ErrorBodies, n \in Nonces :
            call' = [call EXCEPT ![p] =
                       Rejected([call[p] EXCEPT !.res = NotOk(st, text)],
                                TokenRefreshFailed(st, text), n, callbackServer, now)]
       \/ \E n \in Nonces :
            call' = [call EXCEPT ![p] =
                       Rejected(call[p], Err("fetch failed", 0), n, callbackServer, now)]
    /\ UNCHANGED <<now, file, callbackServer, tokenStore, fileMode, dirMode,
                   redirectUri, orphan>>

Listening(p) ==
    /\ call[p].pc = "binding"
    /\ PortFree
    /\ call' = [call EXCEPT ![p] = [@ EXCEPT !.pc = "waiting", !.server = "listening"]]
    /\ UNCHANGED <<now, file, callbackServer, tokenStore, fileMode, dirMode,
                   redirectUri, orphan>>

ServerError(p) ==
    /\ call[p].pc = "binding"
    /\ call' = [call EXCEPT ![p] = OnServerError(call[p], callbackServer)]
    /\ UNCHANGED <<now, file, callbackServer, tokenStore, fileMode, dirMode,
                   redirectUri, orphan>>

\* a request reaches the server: while the attempt waits, or later when the
\* server was left listening
Request(p) ==
    /\ call[p].server = "listening"
    /\ \E req \in Requests :
         call' = [call EXCEPT ![p] = Handler(call[p], req, callbackServer)]
    /\ UNCHANGED <<now, file, callbackServer, tokenStore, fileMode, dirMode,
                   redirectUri, orphan>>

\* the timer fires unless clearTimeout has run; the outcome of listen comes
\* first, on the next turn of the event loop
Timeout(p) ==
    /\ call[p].pc # "binding"
    /\ call[p].timer >= 0
    /\ now >= call[p].timer
    /\ call' = [call EXCEPT ![p] = OnTimeout(call[p])]
    /\ UNCHANGED <<now, file, callbackServer, tokenStore, fileMode, dirMode,
                   redirectUri, orphan>>

\* the token endpoint answers the authorization-code request
ExchangeResponse(p) ==
    /\ call[p].pc = "exchange"
    /\ \/ \E json \in TokenResponses("authorization_code") :
            call' = [call EXCEPT ![p] =
                       DoInteractiveAuth_Authorized([call[p] EXCEPT !.res = Ok(json),
                                               !.order = LastOrder + 1],
                                                    FromResponse(json, now))]
       \/ \E st \in FailureStatuses \ {0}, text \in ErrorBodies :
            call' = [call EXCEPT ![p] =
                       ExchangeCode_Rejected([call[p] EXCEPT !.res = NotOk(st, text)],
                                             TokenExchangeFailed(st, text))]
       \/ call' = [call EXCEPT ![p] =
                     ExchangeCode_Rejected(call[p], Err("fetch failed", 0))]
    /\ UNCHANGED <<now, file, callbackServer, tokenStore, fileMode, dirMode,
                   redirectUri, orphan>>

\* save: mkdir(dirname, recursive, 0o700)
SaveMkdir(p) ==
    /\ call[p].pc = "mkdir"
    /\ \/ /\ dirMode' = MadeDir(dirMode)
          /\ call' = [call EXCEPT ![p] = [@ EXCEPT !.pc = "writeFile"]]
       \/ /\ dirMode' = dirMode
          /\ \E n \in Nonces :
               call' = [call EXCEPT ![p] =
                          Rejected(call[p], Err("EACCES: mkdir", 0), n,
                                   callbackServer, now)]
    /\ UNCHANGED <<now, file, callbackServer, tokenStore, fileMode, redirectUri, orphan>>

\* save: writeFile(filePath, JSON.stringify(tokens), 0o600) up to its first
\* await: open(filePath, 'w', 0o600) creates the file or truncates it
SaveWriteFile(p) ==
    /\ call[p].pc = "writeFile"
    /\ \/ /\ file' = Partial
          /\ fileMode' = Opened(file, fileMode)
          /\ call' = [call EXCEPT ![p] = [@ EXCEPT !.pc = "write"]]
       \/ /\ file' = file
          /\ fileMode' = fileMode
          /\ \E n \in Nonces :
               call' = [call EXCEPT ![p] =
                          Rejected(call[p], Err("EACCES: open", 0), n,
                                   callbackServer, now)]
    /\ UNCHANGED <<now, callbackServer, tokenStore, dirMode, redirectUri,
                   orphan>>

\* writeFile resolved: the validating variant goes on to chmod, the other
\* one returns from save
SaveWritten(c) == IF tokenStore = "strict" THEN [c EXCEPT !.pc = "chmod"] ELSE Saved(c)

\* writeFile after open: write(fd, data) from offset 0, then close; a
\* failing write leaves the truncated file
SaveWrite(p) ==
    /\ call[p].pc = "write"
    /\ \/ /\ file' = Overlay(Written(call[p].saving), file)
          /\ call' = [call EXCEPT ![p] = SaveWritten(call[p])]
       \/ /\ file' = file
          /\ \E n \in Nonces :
               call' = [call EXCEPT ![p] =
                          Rejected(call[p], Err("ENOSPC: write", 0), n,
                                   callbackServer, now)]
    /\ UNCHANGED <<now, callbackServer, tokenStore, fileMode, dirMode,
                   redirectUri, orphan>>

\* save: chmod(filePath, 0o600), then the caller of save resumes
SaveChmod(p) ==
    /\ call[p].pc = "chmod"
    /\ \/ /\ fileMode' = "0600"
          /\ call' = [call EXCEPT ![p] = Saved(call[p])]
       \/ /\ fileMode' = fileMode
          /\ \E n \in Nonces :
               call' = [call EXCEPT ![p] =
                          Rejected(call[p], Err("EPERM: chmod", 0), n,
                                   callbackServer, now)]
    /\ UNCHANGED <<now, file, callbackServer, tokenStore, dirMode,
                   redirectUri, orphan>>

Next ==
    \/ Tick
    \/ \E p \in Solo, op \in Ops : Call(p, op)
    \/ \E p \in Solo : Load(p)
    \/ \E p \in Solo : StatusLoad(p)
    \/ \E p \in Solo : RefreshResponse(p)
    \/ \E p \in Solo : Listening(p)
    \/ \E p \in Solo : ServerError(p)
    \/ \E p \in Solo : Request(p)
    \/ \E p \in Solo : Timeout(p)
    \/ \E p \in Solo : ExchangeResponse(p)
    \/ \E p \in Solo : SaveMkdir(p)
    \/ \E p \in Solo : SaveWriteFile(p)
    \/ \E p \in Solo : SaveWrite(p)
    \/ \E p \in Solo : SaveChmod(p)

Spec == Init /\ [][Next]_vars

\* the clock advances, and the event loop runs the callback of a due timer
LiveSpec ==
    Init /\ [][Next]_vars /\ WF_vars(Tick) /\ \A p \in Solo : WF_vars(Timeout(p))

\* the event loop also runs the callbacks of what the operating system
\* completes by itself: reads and writes of the disk, and the bind of listen.
\* Requests to the callback server and answers of the token endpoint come
\* from outside, if they come
ProgressSpec ==
    /\ Init /\ [][Next]_vars
    /\ WF_vars(Tick)
    /\ \A p \in Solo :
          /\ WF_vars(Timeout(p))
          /\ WF_vars(Load(p) \/ StatusLoad(p))
          /\ WF_vars(Listening(p) \/ ServerError(p))
          /\ WF_vars(SaveMkdir(p) \/ SaveWriteFile(p) \/ SaveWrite(p) \/ SaveChmod(p))

(***************************************************************************)
(* isExpired at the boundary: a status query, which applies isExpired to   *)
(* the stored TokenSet, on stores whose expires_at lies within a few       *)
(* milliseconds of now + EXPIRY_BUFFER_MS.                                 *)
(***************************************************************************)
ExpiryInit ==
    /\ now \in 0..MaxSkew
    /\ file \in {Written(TokenData("at0", "rt0", e, ALL_SCOPES)) :
                   e \in (EXPIRY_BUFFER_MS - MaxSkew)..(EXPIRY_BUFFER_MS + 2 * MaxSkew)}
    /\ callbackServer \in {"v1", "v2"}
    /\ tokenStore \in {"strict", "lax"}
    /\ fileMode = CreatedMode(file)
    /\ dirMode = CreatedDirMode(file)
    /\ redirectUri = DEFAULT_REDIRECT_URI
    /\ orphan = FALSE
    /\ call = [p \in Callers |-> IdleCall]

ExpiryNext ==
    \/ \E p \in Solo : Call(p, "mf_auth_status")
    \/ \E p \in Solo : StatusLoad(p)

ExpirySpec == ExpiryInit /\ [][ExpiryNext]_vars

(***************************************************************************)
(* Two callers at one instant: tool calls of one process interleave at     *)
(* their awaits.  The environment is narrowed: one token file to start     *)
(* from, callbacks carrying one state value, the token endpoint failing by *)
(* status only, no disk failure, each caller calling once.                 *)
(***************************************************************************)
ConcOps == {"getValidToken", "mf_auth_login"}

ConcFiles == {Missing, Written(TokenData("at0", "rt0", 0, ALL_SCOPES))}

ConcInit ==
    /\ now = 0
    /\ file \in ConcFiles
    /\ callbackServer \in {"v1", "v2"}
    /\ tokenStore \in {"strict", "lax"}
    /\ fileMode = CreatedMode(file)
    /\ dirMode = CreatedDirMode(file)
    /\ redirectUri = DEFAULT_REDIRECT_URI
    /\ orphan = FALSE
    /\ call = [p \in Callers |-> IdleCall]

EnvFaults == {"fetch failed", "EACCES: mkdir", "EACCES: open", "ENOSPC: write", "EPERM: chmod"}

ConcInputs ==
    \A p \in Callers :
        /\ call[p].state \in {NULL, "s1"}
        /\ call[p].cb # Null =>
              /\ call[p].cb.state = "s1"
              /\ ~(Truthy(call[p].cb.code) /\ Truthy(call[p].cb.error))
        /\ call[p].http # 404
        /\ call[p].caught # Null => call[p].caught.message \notin EnvFaults
        /\ call[p].flowError # Null => call[p].flowError.message \notin EnvFaults
        /\ call[p].ret.kind = "threw" => call[p].ret.error.message \notin EnvFaults

ConcNext ==
    \/ Tick
    \/ \E p \in Callers, op \in ConcOps :
          call[p].pc = "idle" /\ Call(p, op) /\ ConcInputs'
    \/ \E p \in Callers : Load(p) /\ ConcInputs'
    \/ \E p \in Callers : RefreshResponse(p) /\ ConcInputs'
    \/ \E p \in Callers : Listening(p) /\ ConcInputs'
    \/ \E p \in Callers : ServerError(p) /\ ConcInputs'
    \/ \E p \in Callers : Request(p) /\ ConcInputs'
    \/ \E p \in Callers : Timeout(p) /\ ConcInputs'
    \/ \E p \in Callers : ExchangeResponse(p) /\ ConcInputs'
    \/ \E p \in Callers : SaveMkdir(p) /\ ConcInputs'
    \/ \E p \in Callers : SaveWriteFile(p) /\ ConcInputs'
    \/ \E p \in Callers : SaveWrite(p) /\ ConcInputs'
    \/ \E p \in Callers : SaveChmod(p) /\ ConcInputs'

ConcSpec == ConcInit /\ [][ConcNext]_vars

(***************************************************************************)
(* API requests: one tool call after another through MfApiClient, each     *)
(* obtaining its token from getValidToken.  The environment is narrowed as *)
(* for the two callers.                                                    *)
(***************************************************************************)
ApiFiles ==
    {Missing} \cup {Written(TokenData("at0", "rt0", e, ALL_SCOPES)) :
                      e \in {0, 2 * EXPIRY_BUFFER_MS}}

ApiInit ==
    /\ now = 0
    /\ file \in ApiFiles
    /\ callbackServer \in {"v1", "v2"}
    /\ tokenStore \in {"strict", "lax"}
    /\ fileMode = CreatedMode(file)
    /\ dirMode = CreatedDirMode(file)
    /\ redirectUri = DEFAULT_REDIRECT_URI
    /\ orphan = FALSE
    /\ call = [p \in Callers |-> IdleCall]

ApiNext ==
    \/ Tick
    \/ \E p \in Solo, method \in Methods : ApiCall(p, method)
    \/ \E p \in Solo : ApiResponse(p)
    \/ \E p \in Solo : Load(p) /\ ConcInputs'
    \/ \E p \in Solo : RefreshResponse(p) /\ ConcInputs'
    \/ \E p \in Solo : Listening(p) /\ ConcInputs'
    \/ \E p \in Solo : ServerError(p) /\ ConcInputs'
    \/ \E p \in Solo : Request(p) /\ ConcInputs'
    \/ \E p \in Solo : Timeout(p) /\ ConcInputs'
    \/ \E p \in Solo : ExchangeResponse(p) /\ ConcInputs'
    \/ \E p \in Solo : SaveMkdir(p) /\ ConcInputs'
    \/ \E p \in Solo : SaveWriteFile(p) /\ ConcInputs'
    \/ \E p \in Solo : SaveWrite(p) /\ ConcInputs'
    \/ \E p \in Solo : SaveChmod(p) /\ ConcInputs'

ApiSpec == ApiInit /\ [][ApiNext]_vars

(***************************************************************************)
(* Permissions: the token file may exist before the program first saves,   *)
(* created by the operator or restored from a copy, with permission bits   *)
(* of its own.                                                             *)
(***************************************************************************)
ExistingModes == {"0600", "0644"}

ExistingDirModes == {"0700", "0755"}

PermInit ==
    /\ now = 0
    /\ file \in ConcFiles
    /\ callbackServer \in {"v1", "v2"}
    /\ tokenStore \in {"strict", "lax"}
    /\ fileMode \in IF file.kind = "missing" THEN {"none"} ELSE ExistingModes
    /\ dirMode \in IF file.kind = "missing" THEN {"none"} \cup ExistingDirModes
                                              ELSE ExistingDirModes
    /\ redirectUri = DEFAULT_REDIRECT_URI
    /\ orphan = FALSE
    /\ call = [p \in Callers |-> IdleCall]

\* the calls that can save, at one instant
PermNext ==
    \/ \E p \in Solo, op \in ConcOps : Call(p, op)
    \/ \E p \in Solo : Load(p)
    \/ \E p \in Solo : RefreshResponse(p)
    \/ \E p \in Solo : Listening(p)
    \/ \E p \in Solo : ServerError(p)
    \/ \E p \in Solo : Request(p)
    \/ \E p \in Solo : ExchangeResponse(p)
    \/ \E p \in Solo : SaveMkdir(p)
    \/ \E p \in Solo : SaveWriteFile(p)
    \/ \E p \in Solo : SaveWrite(p)
    \/ \E p \in Solo : SaveChmod(p)

PermSpec == PermInit /\ [][PermNext]_vars

(***************************************************************************)
(* One call after another through one AuthManager: the second call starts  *)
(* when the first has completed.  Between the two calls time passes and    *)
(* the token file may be removed from outside the program.  The            *)
(* environment is narrowed as for the two callers.                         *)
(***************************************************************************)
SeqOps == {"getValidToken", "mf_auth_status"}

\* the operator removes the token file while no call is running
FileRemoved ==
    /\ \A p \in Callers : call[p].pc \in {"idle", "done"}
    /\ file.kind # "missing"
    /\ file' = Missing
    /\ fileMode' = "none"
    /\ UNCHANGED <<now, callbackServer, tokenStore, dirMode, redirectUri, orphan, call>>

SeqNext ==
    \/ Tick
    \/ FileRemoved
    \/ \E op \in SeqOps : call["c1"].pc = "idle" /\ Call("c1", op)
    \/ \E op \in SeqOps :
          call["c1"].pc = "done" /\ call["c2"].pc = "idle" /\ Call("c2", op)
    \/ \E p \in Callers : Load(p) /\ ConcInputs'
    \/ \E p \in Callers : StatusLoad(p)
    \/ \E p \in Callers : RefreshResponse(p) /\ ConcInputs'
    \/ \E p \in Callers : Listening(p) /\ ConcInputs'
    \/ \E p \in Callers : ServerError(p) /\ ConcInputs'
    \/ \E p \in Callers : Request(p) /\ ConcInputs'
    \/ \E p \in Callers : Timeout(p) /\ ConcInputs'
    \/ \E p \in Callers : ExchangeResponse(p) /\ ConcInputs'
    \/ \E p \in Callers : SaveMkdir(p) /\ ConcInputs'
    \/ \E p \in Callers : SaveWriteFile(p) /\ ConcInputs'
    \/ \E p \in Callers : SaveWrite(p) /\ ConcInputs'
    \/ \E p \in Callers : SaveChmod(p) /\ ConcInputs'

SeqSpec == ApiInit /\ [][SeqNext]_vars

(***************************************************************************)
(* Configuration: the redirect URI comes from the environment variable     *)
(* MF_REDIRECT_URI of the process, with a default.                         *)
(***************************************************************************)
RedirectInit ==
    /\ now = 0
    /\ file \in ConcFiles
    /\ callbackServer \in {"v1", "v2"}
    /\ tokenStore \in {"strict", "lax"}
    /\ fileMode = CreatedMode(file)
    /\ dirMode = CreatedDirMode(file)
    /\ redirectUri \in RedirectUris
    /\ orphan = FALSE
    /\ call = [p \in Callers |-> IdleCall]

RedirectSpec == RedirectInit /\ [][PermNext]_vars

(***************************************************************************)
(* Vocabulary of the properties                                            *)
(***************************************************************************)
Has(log, name) == \E i \in 1..Len(log) : log[i].ev = name

Count(log, name) == Cardinality({i \in 1..Len(log) : log[i].ev = name})

Done(c) == c.pc = "done"

ReturnedOk(c) == c.pc = "done" /\ c.ret.kind = "returned"

Failed(c) == c.pc = "done" /\ c.ret.kind = "threw"

\* the call is a getValidToken call that has loaded the store
Loaded(c) == c.op = "getValidToken" /\ Len(c.log) >= 1

\* refreshToken was called and did not resolve with tokens
RefreshFailed(c) ==
    Has(c.log, "refreshToken") /\ c.pc # "refresh" /\ c.refreshed = Null

\* the interactive flow was started and ended without tokens
FlowFailed(c) == Has(c.log, "authorize") /\ Done(c) /\ c.tokens = Null

SavePcs == {"mkdir", "writeFile", "write", "chmod"}

FlowPcs == {"binding", "waiting", "exchange"}

WriteFailures == {"EACCES: mkdir", "EACCES: open", "ENOSPC: write", "EPERM: chmod"}

\* caller p takes a step in which a step of save fails
SaveStepFails(p) ==
    /\ call[p].pc \in SavePcs
    /\ call'[p].pc \notin SavePcs
    /\ ~ReturnedOk(call'[p])

(***************************************************************************)
(* C1: every getValidToken call that returns, returns a TokenSet for which *)
(* isExpired is false at the moment of return.                             *)
(* Stated on the step that returns.  The code does not hold it: a token    *)
(* fresh from refreshToken or exchangeCode is returned unchecked.          *)
(***************************************************************************)
C1_NeverReturnsExpired ==
    [][\A p \in Callers :
         (call[p].pc # "done" /\ call'[p].op = "getValidToken" /\ ReturnedOk(call'[p]))
         => ~isExpired(call'[p].ret.value, now')]_vars

(***************************************************************************)
(* C2: with an expired stored TokenSet, once refreshToken has failed no    *)
(* save is performed and the store still holds the previously stored       *)
(* TokenSet until the fallback interactive flow has yielded tokens; if     *)
(* that flow fails too, the store content is what it was before the call.  *)
(***************************************************************************)
C2_FailedRefreshKeepsStore ==
    \A p \in Callers :
        (RefreshFailed(call[p]) /\ call[p].tokens = Null)
        => /\ ~Has(call[p].log, "save")
           /\ file = Written(call[p].stored)

C2_Witness ==
    \E p \in Callers :
        /\ RefreshFailed(call[p])
        /\ FlowFailed(call[p])
        /\ isExpired(call[p].stored, now)

(***************************************************************************)
(* C3: when the store holds a non-expired TokenSet, getValidToken returns  *)
(* exactly that TokenSet with no refreshToken call, no authorize call and  *)
(* no save; the store is unchanged.  Stated on the step that resumes       *)
(* getValidToken after load.                                               *)
(***************************************************************************)
C3_ValidStoredReturnedAsIs ==
    [][\A p \in Callers :
         (/\ call[p].pc = "load"
          /\ call'[p] # call[p]
          /\ load(file) # Null
          /\ ~isExpired(load(file), now))
         => /\ ReturnedOk(call'[p])
            /\ call'[p].ret.value = load(file)
            /\ call'[p].log = <<Ev("load", Null)>>
            /\ file' = file]_vars

C3_Witness ==
    \E p \in Callers :
        /\ Loaded(call[p])
        /\ ReturnedOk(call[p])
        /\ call[p].ret.value = call[p].stored
        /\ file = Written(call[p].stored)

(***************************************************************************)
(* C4: when the store holds an expired TokenSet and refreshToken resolves, *)
(* getValidToken does not start the interactive flow, performs no save     *)
(* other than the one of the refreshed TokenSet, has called refreshToken   *)
(* exactly once with the stored refresh_token, and what it returns is the  *)
(* refreshed TokenSet, saved exactly once.  The code does not hold it:     *)
(* when save(refreshed) rejects, the catch block starts the interactive    *)
(* flow (see C7).                                                          *)
(***************************************************************************)
RefreshPathLog(c) ==
    <<Ev("load", Null), Ev("refreshToken", [refresh_token |-> c.stored.refresh_token]),
      Ev("save", c.refreshed)>>

C4_RefreshedSavedAndReturned ==
    \A p \in Callers :
        call[p].refreshed # Null
        => /\ ~Has(call[p].log, "authorize")
           /\ call[p].log = RefreshPathLog(call[p])
           /\ ReturnedOk(call[p]) => call[p].ret.value = call[p].refreshed

C6_AbsentRunsFlowSavesReturns ==
    \A p \in Callers :
        (Loaded(call[p]) /\ call[p].stored = Null)
        => /\ ~Has(call[p].log, "refreshToken")
           /\ call[p].log[1] = Ev("load", Null)
           /\ Len(call[p].log) >= 2 /\ call[p].log[2] = Ev("authorize", Null)
           /\ ReturnedOk(call[p]) =>
                 /\ call[p].log = <<Ev("load", Null), Ev("authorize", Null),
                                    Ev("save", call[p].ret.value)>>
                 /\ call[p].ret.value = call[p].tokens
                 /\ file = Written(call[p].ret.value)

C6_Witness ==
    \E p \in Callers :
        /\ Loaded(call[p])
        /\ call[p].stored = Null
        /\ ReturnedOk(call[p])

(***************************************************************************)
(* C7: a store write failure is fatal and never swallowed: whenever a step *)
(* of save fails inside getValidToken or doInteractiveAuth, the call fails *)
(* with that write failure; it does not go on to another path such as the  *)
(* interactive flow.  The code does not hold it: save(refreshed) is inside *)
(* the try block of getValidToken.                                         *)
(***************************************************************************)
C7_WriteFailureIsFatal ==
    [][\A p \in Callers :
         SaveStepFails(p)
         => /\ Failed(call'[p])
            /\ call'[p].ret.error.message \in WriteFailures]_vars

(***************************************************************************)
(* C8: a failure of the interactive flow (timeout, denial, state mismatch, *)
(* bind failure, exchange failure) makes the enclosing getValidToken or    *)
(* doInteractiveAuth call fail with that same error; no save follows the   *)
(* start of the flow and the flow's steps leave the store unchanged; the   *)
(* mf_auth_login tool returns an error result with the error's message.    *)
(***************************************************************************)
C8_FlowFailureState ==
    \A p \in Callers :
        FlowFailed(call[p])
        => /\ call[p].flowError # Null
           /\ call[p].ret = Threw(call[p].flowError)
           /\ call[p].log[Len(call[p].log)] = Ev("authorize", Null)
           /\ call[p].op = "mf_auth_login" =>
                 /\ call[p].toolResult # Null
                 /\ call[p].toolResult.isError
                 /\ call[p].toolResult.detail = call[p].flowError.message

C8_FlowFailureSurfaced ==
    /\ []C8_FlowFailureState
    /\ [][\A p \in Callers :
            (call[p].pc \in FlowPcs /\ call'[p] # call[p] /\ FlowFailed(call'[p]))
            => file' = file]_vars

C8_Witness ==
    \E p \in Callers :
        /\ FlowFailed(call[p])
        /\ call[p].op = "mf_auth_login"
        /\ call[p].settled = "Denied"
        /\ file.kind = "json"

(***************************************************************************)
(* C9: for the listener of a run whose state is s, a request to the        *)
(* callback path whose state parameter differs from s resolves the flow as *)
(* StateMismatch and never as Succeeded, even with a code; Succeeded is    *)
(* reached only by a request whose state equals s.  Stated for requests    *)
(* without an error parameter (a request with one is denied whatever its   *)
(* state).  The code does not hold it: the variant without state check     *)
(* succeeds on any code.                                                   *)
(***************************************************************************)
C9_MismatchNeverSucceeds ==
    \A p \in Callers :
        /\ (/\ call[p].cb # Null
            /\ ~Truthy(call[p].cb.error)
            /\ call[p].cb.state # call[p].state)
           => call[p].settled = "StateMismatch"
        /\ call[p].settled = "Succeeded" => call[p].cb.state = call[p].state

(***************************************************************************)
(* C10: in every run of authorize the state generated for the run is in    *)
(* the authorization URL and is the listener's expected state, so that     *)
(* exchangeCode is called only with a code from a callback whose state is  *)
(* the run's.  The code does not hold it: authorize calls                  *)
(* waitForCallback(port) without the state.                                *)
(***************************************************************************)
C10_NonceBindsUrlAndListener ==
    \A p \in Callers :
        /\ call[p].authUrl # Null =>
              /\ call[p].authUrl.state = call[p].state
              /\ call[p].expectedState = call[p].state
        /\ call[p].pc = "exchange" =>
              /\ call[p].cb.state = call[p].state
              /\ call[p].cb.code = call[p].code

\* caller p takes a step that starts no new call and no new listener
SameListener(p) ==
    /\ call'[p].pc # "binding"
    /\ call[p].pc = "done" => call'[p].pc = "done"

(***************************************************************************)
(* C11: a listener invocation is resolved at most once: once it has an     *)
(* outcome (Succeeded, Denied, StateMismatch, TimedOut, BindFailed), no    *)
(* later request and no timer expiry changes the outcome, the request that *)
(* produced it or the code it resolved with; after a failing outcome the   *)
(* call stays failed with the error of that outcome.                       *)
(***************************************************************************)
C11_SettlesOnce ==
    [][\A p \in Callers :
         (call[p].settled # "pending" /\ SameListener(p))
         => /\ call'[p].settled = call[p].settled
            /\ call'[p].cb = call[p].cb
            /\ call'[p].code = call[p].code
            /\ call[p].settled # "Succeeded" =>
                  /\ call'[p].flowError = call[p].flowError
                  /\ call'[p].ret = Threw(call[p].flowError)]_vars

\* a request with a code was answered after the attempt had ended as Denied
C11_Witness ==
    \E p \in Callers :
        /\ call[p].settled = "Denied"
        /\ call[p].http = 200
        /\ Failed(call[p])

(***************************************************************************)
(* C12: when an interactive attempt has ended, on every path, its listener *)
(* is closed and holds the port no longer: a listener whose outcome is     *)
(* Succeeded, Denied, StateMismatch, TimedOut or BindFailed is not         *)
(* listening, and no server of an earlier attempt is left on the port.     *)
(* The code does not hold it: the variant without close leaves the server  *)
(* listening when it rejects.                                              *)
(***************************************************************************)
C12_EndedListenerReleasesPort ==
    /\ ~orphan
    /\ \A p \in Callers :
          call[p].settled # "pending" => call[p].server # "listening"

(***************************************************************************)
(* C13: a listener that waits while the 2-minute deadline is still ahead   *)
(* (within the modelled time) does not wait forever: with no callback it   *)
(* ends as TimedOut; and a listener that has timed out is closed, so that  *)
(* the port is free for a new listener.  Checked under LiveSpec.  The code *)
(* does not hold it: the variant without timer waits until a callback      *)
(* comes.                                                                  *)
(***************************************************************************)
C13_TimeoutEndsWaiting ==
    /\ \A p \in Callers :
          (call[p].pc = "waiting" /\ now <= MaxNow - CALLBACK_TIMEOUT_MS)
          ~> (call[p].pc # "waiting")
    /\ [](\A p \in Callers :
            call[p].settled = "TimedOut" => call[p].server = "closed" /\ PortFree)

(***************************************************************************)
(* C14: at most one listener is bound to the port at any time; an attempt  *)
(* that reaches its bind while a server of another attempt listens fails   *)
(* at the bind: its next step ends the call with the bind error, without   *)
(* ever waiting and with no timer armed, and changes nothing of the other  *)
(* caller.  Checked under ConcSpec.                                        *)
(***************************************************************************)
C14_BindFailureStep ==
    \A p \in Callers :
        (call[p].pc = "binding" /\ ~PortFree /\ call'[p] # call[p])
        => /\ call'[p].settled = "BindFailed"
           /\ call'[p].ret = Threw(Err("listen EADDRINUSE", 0))
           /\ Done(call'[p])
           /\ call'[p].timer = -1
           /\ call'[p].server = "none"
           /\ \A q \in Callers \ {p} : call'[q] = call[q]

C14_OneListener ==
    /\ [](\A p, q \in Callers :
            (call[p].server = "listening" /\ call[q].server = "listening") => p = q)
    /\ [][C14_BindFailureStep]_vars

\* one attempt failed at its bind while the other one goes on waiting
C14_Witness ==
    \E p, q \in Callers :
        /\ call[p].settled = "BindFailed"
        /\ call[p].ret = Threw(Err("listen EADDRINUSE", 0))
        /\ call[q].pc = "waiting"
        /\ call[q].settled = "pending"

NoSaveInProgress == \A p \in Callers : call[p].pc \notin SavePcs

\* the arguments of the save calls made so far
SaveArgs == {call[p].saving : p \in Callers} \ {Null}

(***************************************************************************)
(* C15: concurrent calls never corrupt the store: whenever no save is in   *)
(* progress, the file is as it was before the calls if none of them has    *)
(* saved, and otherwise load returns a complete TokenSet that is the       *)
(* argument of one of the save calls.  Checked under ConcSpec, where no    *)
(* write fails.  The code does not hold it: two writeFile calls on the     *)
(* same path interleave between open and write.                            *)
(***************************************************************************)
C15_StoreNeverCorrupted ==
    NoSaveInProgress
    => IF SaveArgs = {} THEN file \in ConcFiles ELSE load(file) \in SaveArgs

\* the file holds a complete TokenSet
HoldsTokenSet(f) == f.kind = "json" /\ isValidTokenData(JSONparse(f.text))

(***************************************************************************)
(* C16: the persisted TokenSet is never partially written: at whatever     *)
(* step a save stops (a failing step, or a crash after any step), a valid  *)
(* TokenSet stored before is still what load returns, unless load returns  *)
(* the TokenSet being saved.  Stated on every step of save.  The code does *)
(* not hold it: writeFile truncates the file before it writes.             *)
(***************************************************************************)
C16_SaveKeepsOldOrNew ==
    [][\A p \in Callers :
         (call[p].pc \in SavePcs /\ call'[p] # call[p] /\ HoldsTokenSet(file))
         => load(file') \in {load(file), call[p].saving}]_vars

StatusCall(c) == c.op = "mf_auth_status"

(***************************************************************************)
(* C17: getAuthStatus is read-only whatever the store holds (nothing, a    *)
(* valid, an expired or a corrupt TokenSet): the call only loads; it never *)
(* calls refreshToken, authorize or save and starts no listener, and the   *)
(* step that completes it leaves the token file as it was.                 *)
(***************************************************************************)
C17_StatusOnlyLoads ==
    \A p \in Callers :
        StatusCall(call[p])
        => /\ call[p].pc \in {"statusLoad", "done"}
           /\ ~Has(call[p].log, "refreshToken")
           /\ ~Has(call[p].log, "authorize")
           /\ ~Has(call[p].log, "save")
           /\ call[p].server = "none"
           /\ call[p].timer = -1

C17_StatusReadOnly ==
    /\ []C17_StatusOnlyLoads
    /\ [][\A p \in Callers :
            (call[p].pc = "statusLoad" /\ call'[p] # call[p])
            => /\ file' = file
               /\ Done(call'[p])
               /\ call'[p].log = <<Ev("load", Null)>>]_vars

\* a status query has completed on a store holding an expired TokenSet
C17_Witness ==
    \E p \in Callers :
        /\ StatusCall(call[p])
        /\ ReturnedOk(call[p])
        /\ call[p].stored # Null
        /\ isExpired(call[p].stored, now)
        /\ file = Written(call[p].stored)

(***************************************************************************)
(* C18: getAuthStatus always returns, and what it returns says             *)
(* authenticated exactly when the token file holds a complete TokenSet     *)
(* that is not expired; on a missing or corrupt file it says not           *)
(* authenticated.  Stated on the step that completes the call.  The code   *)
(* does not hold it: the load that does not validate passes on JSON of any *)
(* shape, and isExpired is false on an object without expires_at.          *)
(***************************************************************************)
C18_StatusAuthenticatedIffValid ==
    [][\A p \in Callers :
         (call[p].pc = "statusLoad" /\ call'[p] # call[p])
         => /\ ReturnedOk(call'[p])
            /\ call'[p].ret.value.authenticated
                 <=> (HoldsTokenSet(file) /\ ~isExpired(JSONparse(file.text), now))]_vars

(***************************************************************************)
(* C19: in what getAuthStatus returns, expiresAt and scope are null        *)
(* whenever authenticated is false, also when an expired TokenSet is       *)
(* stored, and are the stored TokenSet's expires_at and scope when         *)
(* authenticated is true.  The code does not hold it: for an expired       *)
(* TokenSet it answers not authenticated together with the stored          *)
(* expires_at and scope.                                                   *)
(***************************************************************************)
C19_NullUnlessAuthenticated ==
    \A p \in Callers :
        (StatusCall(call[p]) /\ ReturnedOk(call[p]))
        => /\ ~call[p].ret.value.authenticated =>
                 /\ call[p].ret.value.expiresAt = NullInstant
                 /\ call[p].ret.value.scope = NULL
           /\ call[p].ret.value.authenticated =>
                 /\ call[p].ret.value.expiresAt = call[p].stored.expires_at
                 /\ call[p].ret.value.scope = call[p].stored.scope

(***************************************************************************)
(* C20: for every TokenSet t and instant now, isExpired(t) is true exactly *)
(* when t.expires_at <= now + 60000, the boundary included, and false when *)
(* t.expires_at > now + 60000; a status query on a store holding t says    *)
(* accordingly.  Checked under ExpirySpec.                                 *)
(***************************************************************************)
C20_ExpiredIffWithinBuffer ==
    /\ HoldsTokenSet(file) =>
          (isExpired(load(file), now) <=> load(file).expires_at <= now + 60000)
    /\ \A p \in Callers :
          (StatusCall(call[p]) /\ ReturnedOk(call[p]))
          => (call[p].ret.value.authenticated <=> call[p].stored.expires_at > now + 60000)

\* a status query on a TokenSet expiring exactly 60000 ms from now
C20_Witness ==
    \E p \in Callers :
        /\ StatusCall(call[p])
        /\ ReturnedOk(call[p])
        /\ call[p].stored.expires_at = now + 60000
        /\ ~call[p].ret.value.authenticated

(***************************************************************************)
(* C21: round trip: when a save(t) completes with no other write in        *)
(* between, the token file holds the text of t alone (a later save         *)
(* overwrites what an earlier one or the file before held, it does not     *)
(* append), and load returns a TokenSet equal to t in all four members.    *)
(* Stated on the step that completes the save.                             *)
(***************************************************************************)
C21_SaveThenLoadRoundTrip ==
    [][\A p \in Callers :
         (call[p].pc \in SavePcs /\ ReturnedOk(call'[p]))
         => /\ file' = Written(call[p].saving)
            /\ load(file') = call[p].saving
            /\ call'[p].ret.value = call[p].saving]_vars

\* a refreshed TokenSet was saved over the stored one and is what load returns
C21_Witness ==
    \E p \in Callers :
        /\ ReturnedOk(call[p])
        /\ call[p].stored # Null
        /\ call[p].refreshed # Null
        /\ call[p].refreshed # call[p].stored
        /\ Has(call[p].log, "save")
        /\ load(file) = call[p].refreshed

(***************************************************************************)
(* C22: load never fails and never hands file content of another shape to  *)
(* a caller: on a missing file, on text that does not parse and on valid   *)
(* JSON without the four TokenSet members it returns absent, so whatever a *)
(* call holds as the loaded TokenSet is complete.  The code does not hold  *)
(* it: the load that does not validate returns whatever JSON.parse         *)
(* returned.                                                               *)
(***************************************************************************)
C22_LoadAbsentUnlessTokenSet ==
    \A p \in Callers : call[p].stored # Null => isValidTokenData(call[p].stored)

(***************************************************************************)
(* C23: after every successful save the token file's mode is 0600, owner   *)
(* read and write only, whether the save created the file or the file      *)
(* existed before with looser permission bits.  Stated on the step that    *)
(* completes the save; checked under PermSpec.  The code does not hold it: *)
(* the save without chmod sets the mode only on a file it creates.         *)
(***************************************************************************)
C23_SavedFileOwnerOnly ==
    [][\A p \in Callers :
         (call[p].pc \in SavePcs /\ ReturnedOk(call'[p])) => fileMode' = "0600"]_vars

\* caller p takes the step in which its token request is answered
TokenEndpointAnswered(p) ==
    /\ call[p].pc \in {"refresh", "exchange"}
    /\ call'[p].res # Null
    /\ call'[p].res # call[p].res

\* the TokenSet the answered request produced, Null if none
Created(p) == IF call[p].pc = "refresh" THEN call'[p].refreshed ELSE call'[p].tokens

C25_NonSuccessStatusThrows ==
    [][\A p \in Callers :
         (TokenEndpointAnswered(p) /\ ~call'[p].res.ok)
         => /\ Created(p) = Null
            /\ Count(call'[p].log, "save") = Count(call[p].log, "save")
            /\ TokenRefreshFailed(call'[p].res.status, call'[p].res.text)
                 # TokenExchangeFailed(call'[p].res.status, call'[p].res.text)
            /\ IF call[p].pc = "refresh"
               THEN call'[p].caught =
                      TokenRefreshFailed(call'[p].res.status, call'[p].res.text)
               ELSE /\ call'[p].flowError =
                         TokenExchangeFailed(call'[p].res.status, call'[p].res.text)
                    /\ call'[p].ret = Threw(call'[p].flowError)]_vars

\* in one call the refresh was answered 400 and later the exchange too
C25_Witness ==
    \E p \in Callers :
        /\ call[p].caught # Null
        /\ call[p].caught.message = "Token refresh failed"
        /\ call[p].caught.status = 400
        /\ call[p].flowError # Null
        /\ call[p].flowError.message = "Token exchange failed"
        /\ call[p].flowError.status = 400
        /\ call[p].flowError.body \in ErrorBodies
        /\ Failed(call[p])

(***************************************************************************)
(* C26: the protocol builders are pure: in every state, whatever calls     *)
(* came before and whatever the clock and the store hold, the              *)
(* authorization URL of a run is the fixed base and path with the client   *)
(* id, the redirect URI, response_type code, the full scope string and the *)
(* state passed in; the body of a refresh request is grant_type            *)
(* refresh_token with the refresh token, client id and secret; the body of *)
(* an exchange request is grant_type authorization_code with the code,     *)
(* client id, secret and redirect URI.  Building the URL sends nothing to  *)
(* the token endpoint: a run that waits for its callback has no request    *)
(* body and no response.                                                   *)
(***************************************************************************)
C26_BuildersPure ==
    \A p \in Callers :
        /\ call[p].authUrl # Null =>
              call[p].authUrl =
                 [base |-> "https://api.biz.moneyforward.com", path |-> "/authorize",
                  client_id |-> "client-id",
                  redirect_uri |-> "http://localhost:3456/callback",
                  response_type |-> "code", scope |-> ALL_SCOPES,
                  state |-> call[p].state]
        /\ call[p].pc = "refresh" =>
              call[p].body =
                 [grant_type |-> "refresh_token",
                  refresh_token |-> call[p].stored.refresh_token,
                  client_id |-> "client-id", client_secret |-> "client-secret"]
        /\ call[p].pc = "exchange" =>
              call[p].body =
                 [grant_type |-> "authorization_code", code |-> call[p].code,
                  client_id |-> "client-id", client_secret |-> "client-secret",
                  redirect_uri |-> "http://localhost:3456/callback"]
        /\ (call[p].pc \in {"binding", "waiting"} /\ ~Has(call[p].log, "refreshToken"))
              => call[p].body = Null /\ call[p].res = Null

\* the third builder call of one call, after a tick: refresh body, URL with
\* the second nonce, exchange body
C26_Witness ==
    \E p \in Callers :
        /\ call[p].pc = "exchange"
        /\ Has(call[p].log, "refreshToken")
        /\ call[p].authUrl.state = "s2"
        /\ call[p].body.code = "code1"
        /\ now > 0

ApiRequest(c) == c.op = "request"

\* what getValidToken returned to the call: the TokenSet it saved, or else the
\* stored one
Obtained(c) == IF Has(c.log, "save") THEN c.saving ELSE c.stored

(***************************************************************************)
(* C27: every request of MfApiClient (get, post, put, delete) obtains a    *)
(* token from getValidToken first and only then issues its HTTP request:   *)
(* while the token is being obtained nothing has been sent; the one        *)
(* request sent carries as Bearer the access_token of the TokenSet that    *)
(* getValidToken returned to this call, which is the TokenSet in the store *)
(* at that moment and not one kept from an earlier request.  Checked under *)
(* ApiSpec.                                                                *)
(***************************************************************************)
C27_TokenThenRequest ==
    \A p \in Callers :
        ApiRequest(call[p])
        => /\ call[p].method \in Methods
           /\ call[p].fetched <= 1
           /\ call[p].fetched = 0 <=> call[p].h = Null
           /\ call[p].pc \notin {"fetch", "done"} => call[p].fetched = 0
           /\ call[p].fetched > 0 =>
                 /\ Head(call[p].log) = Ev("load", Null)
                 /\ call[p].tokens_h = Obtained(call[p])
                 /\ call[p].h.Authorization = <<"Bearer", Obtained(call[p]).access_token>>
           /\ call[p].pc = "fetch" => load(file) = call[p].tokens_h

\* a request after an earlier one: the stored token came from an earlier
\* refresh, this request refreshed again and sends the new access_token
C27_Witness ==
    \E p \in Callers :
        /\ ApiRequest(call[p])
        /\ call[p].pc = "fetch"
        /\ call[p].stored # Null
        /\ call[p].stored.access_token # "at0"
        /\ call[p].refreshed # Null
        /\ call[p].refreshed.access_token # call[p].stored.access_token
        /\ call[p].h.Authorization = <<"Bearer", call[p].refreshed.access_token>>

(***************************************************************************)
(* C28: when the remote API answers a request with a non-ok status, the    *)
(* call of MfApiClient fails with an MfApiError carrying the status, the   *)
(* status text and the response body and returns no parsed body; an ok     *)
(* answer returns the parsed body.  Checked under ApiSpec.                 *)
(***************************************************************************)
C28_NonOkThrowsMfApiError ==
    \A p \in Callers :
        (ApiRequest(call[p]) /\ call[p].apiRes # Null)
        => IF call[p].apiRes.ok
           THEN call[p].ret = Returned(call[p].apiRes.json)
           ELSE /\ Failed(call[p])
                /\ call[p].ret.error.name = "MfApiError"
                /\ call[p].ret.error.status = call[p].apiRes.status
                /\ call[p].ret.error.statusText = call[p].apiRes.statusText
                /\ call[p].ret.error.body = call[p].apiRes.text

\* a POST answered 404 Not Found
C28_Witness ==
    \E p \in Callers :
        /\ ApiRequest(call[p])
        /\ call[p].method = "POST"
        /\ call[p].apiRes # Null
        /\ call[p].apiRes.status = 404
        /\ Failed(call[p])
        /\ call[p].ret.error.statusText = "Not Found"

(***************************************************************************)
(* C29: a request answered 401 Unauthorized refreshes the token and is     *)
(* sent once more; a request answered 500 is sent once more before its     *)
(* failure is returned: a call that has ended on a 401 or 500 answer has   *)
(* sent its request twice, after a 401 with a token refresh in between.    *)
(* Checked under ApiSpec.  The code does not hold it: request() throws on  *)
(* the first non-ok answer.                                                *)
(***************************************************************************)
C29_RetriesOnce ==
    \A p \in Callers :
        (/\ ApiRequest(call[p])
         /\ Done(call[p])
         /\ call[p].apiRes # Null
         /\ call[p].apiRes.status \in {401, 500})
        => /\ call[p].fetched = 2
           /\ call[p].apiRes.status = 401 => Has(call[p].log, "refreshToken")

\* the call waits on a timer set beyond the modelled time
TimerBeyondHorizon(c) == c.pc = "waiting" /\ c.timer > MaxNow

(***************************************************************************)
(* C30: no operation hangs: every call of getValidToken, doInteractiveAuth *)
(* and authorize in progress eventually completes, by returning or by      *)
(* failing, also when no callback ever arrives and when the token endpoint *)
(* never answers (a call left waiting on a timer set beyond the modelled   *)
(* time counts as on its way).  Checked under ProgressSpec.  The code does *)
(* not hold it: fetch is called without a timeout, and the callback server *)
(* variant without timer waits until a callback comes.                     *)
(***************************************************************************)
C30_EveryCallCompletes ==
    \A p \in Callers :
        (call[p].pc \notin {"idle", "done"})
        ~> (Done(call[p]) \/ TimerBeyondHorizon(call[p]))


(***************************************************************************)
(* C31: a request to any path other than /callback is answered 404 and     *)
(* leaves the listener listening, with its pending outcome, its timer and  *)
(* its port unchanged, however many such requests have come before.        *)
(***************************************************************************)
C31_OtherPathNotFound ==
    \A p \in Callers :
        (call[p].server = "listening" /\ call[p].settled = "pending") =>
            \A req \in Requests :
                req.path # "/callback" =>
                    LET c == Handler(call[p], req, callbackServer)
                    IN  /\ c = [call[p] EXCEPT !.http = 404]
                        /\ c.server = "listening" /\ c.settled = "pending"
                        /\ c.timer = call[p].timer /\ c.port = call[p].port

\* a listener with a running timer that has answered 404; in this variant
\* every request to /callback ends the listener, so the request went elsewhere
C31_Witness ==
    \E p \in Callers :
        /\ callbackServer = "v2" /\ call[p].http = 404
        /\ call[p].server = "listening" /\ call[p].settled = "pending"
        /\ call[p].pc = "waiting" /\ call[p].timer >= 0
        /\ call[p].port = DEFAULT_PORT


(***************************************************************************)
(* C32: a request to /callback that carries the error parameter ends the   *)
(* pending listener as Denied, whatever state and code come with it: never *)
(* as StateMismatch, never as Succeeded.                                   *)
(***************************************************************************)
C32_ErrorMeansDenied ==
    \A p \in Callers :
        /\ (call[p].server = "listening" /\ call[p].settled = "pending") =>
              \A req \in Requests :
                  (req.path = "/callback" /\ Truthy(req.error)) =>
                      LET c == Handler(call[p], req, callbackServer)
                      IN  /\ c.settled = "Denied" /\ c.cb = req
                          /\ c.http = 400 /\ c.code = NULL
                          /\ c.pc # "exchange"
        /\ (call[p].cb # Null /\ Truthy(call[p].cb.error)) =>
              call[p].settled = "Denied"

\* a denied run whose request carried a code and the state of the run
C32_Witness ==
    \E p \in Callers :
        /\ call[p].settled = "Denied" /\ call[p].cb # Null
        /\ call[p].cb.error = "access_denied" /\ call[p].cb.code = "code1"
        /\ call[p].cb.state = call[p].state
        /\ callbackServer = "v2" /\ call[p].server = "closed"


(***************************************************************************)
(* C33: doInteractiveAuth starts the interactive flow without reading the  *)
(* store, whatever the store holds; when it succeeds it has saved the new  *)
(* TokenSet over the stored one and returns the TokenSet it saved.         *)
(***************************************************************************)
C33_InteractiveAuthUnconditional ==
    \A p \in Callers :
        (call[p].op = "mf_auth_login" /\ call[p].pc # "idle") =>
            /\ call[p].stored = Null
            /\ ~Has(call[p].log, "load") /\ ~Has(call[p].log, "refreshToken")
            /\ Len(call[p].log) >= 1 /\ call[p].log[1] = Ev("authorize", Null)
            /\ call[p].authUrl # Null
            /\ ReturnedOk(call[p]) =>
                  /\ call[p].log = <<Ev("authorize", Null),
                                     Ev("save", call[p].ret.value)>>
                  /\ call[p].ret.value = call[p].tokens
                  /\ call[p].ret.value = call[p].saving
                  /\ file = Written(call[p].ret.value)

\* the flow has obtained a new TokenSet and is about to save it while the
\* store holds another TokenSet that is not expired
C33_Witness ==
    \E p \in Callers :
        /\ call[p].op = "mf_auth_login" /\ call[p].pc = "mkdir"
        /\ call[p].tokens # Null /\ file # Written(call[p].tokens)
        /\ load(file) # Null /\ isValidTokenData(load(file))
        /\ ~isExpired(load(file), now)


(***************************************************************************)
(* C34: the manager keeps no token state between calls.  Every             *)
(* getValidToken and getAuthStatus call acts on what load reads from the   *)
(* store at that moment and on the current instant: nothing stored means   *)
(* the interactive flow (or "not authenticated"), a TokenSet that is not   *)
(* expired now is returned (or "authenticated"), an expired one is         *)
(* refreshed (or "not authenticated"), whatever an earlier call found.     *)
(***************************************************************************)
Situation(f, t) ==
    IF load(f) = Null THEN "NoCredentials"
    ELSE IF isExpired(load(f), t) THEN "Expired" ELSE "Valid"

C34_DerivedFromStoreEachTime ==
    [][\A p \in Callers :
         /\ (call[p].pc = "load" /\ call'[p].pc # "load") =>
               /\ call'[p].stored = load(file)
               /\ Situation(file, now) = "NoCredentials" =>
                     /\ call'[p].pc = "binding"
                     /\ call'[p].log = <<Ev("load", Null), Ev("authorize", Null)>>
               /\ Situation(file, now) = "Valid" =>
                     /\ ReturnedOk(call'[p])
                     /\ call'[p].ret.value = load(file)
                     /\ call'[p].log = <<Ev("load", Null)>>
               /\ Situation(file, now) = "Expired" =>
                     /\ call'[p].pc = "refresh"
                     /\ call'[p].body.refresh_token = load(file).refresh_token
         /\ (call[p].pc = "statusLoad" /\ call'[p].pc # "statusLoad") =>
               /\ call'[p].stored = load(file)
               /\ ReturnedOk(call'[p])
               /\ call'[p].ret.value.authenticated = (Situation(file, now) = "Valid")
               /\ Situation(file, now) = "NoCredentials" =>
                     call'[p].ret.value = AuthStatus(FALSE, NullInstant, NULL)
               /\ Situation(file, now) # "NoCredentials" =>
                     /\ call'[p].ret.value.expiresAt = load(file).expires_at
                     /\ call'[p].ret.value.scope = load(file).scope]_vars

\* a first call found a TokenSet that was not expired; the file was removed;
\* the next call finds nothing and starts the interactive flow
C34_Witness ==
    /\ call["c1"].op = "mf_auth_status" /\ ReturnedOk(call["c1"])
    /\ call["c1"].ret.value.authenticated
    /\ file = Missing
    /\ call["c2"].op = "getValidToken" /\ call["c2"].pc = "binding"
    /\ call["c2"].stored = Null

\* a first call returned the stored TokenSet; time passed; the next call
\* finds the same TokenSet expired
C34_WitnessExpired ==
    /\ call["c1"].op = "getValidToken" /\ ReturnedOk(call["c1"])
    /\ call["c1"].log = <<Ev("load", Null)>>
    /\ call["c2"].op = "mf_auth_status" /\ ReturnedOk(call["c2"])
    /\ call["c2"].stored = call["c1"].ret.value
    /\ ~call["c2"].ret.value.authenticated


(***************************************************************************)
(* C35: after every successful save the directory of the token file has    *)
(* mode 0700, owner access only, whether the save created the directory or *)
(* the directory existed before with looser permission bits.  Stated on    *)
(* the step that completes the save; checked under PermSpec.  The code     *)
(* does not hold it: mkdir sets the mode only on a directory it creates.   *)
(***************************************************************************)
C35_SavedDirectoryOwnerOnly ==
    [][\A p \in Callers :
         (call[p].pc \in SavePcs /\ ReturnedOk(call'[p])) => dirMode' = "0700"]_vars


(***************************************************************************)
(* C36: a request to /callback that carries the state of the run but       *)
(* neither a code nor an error is answered 404 and leaves the listener     *)
(* listening; a listener that ended on a request ended on one with an      *)
(* error, with another state than the run's, or with a code and the run's  *)
(* state.  The code does not hold it: the listener with the state check is *)
(* never given the state of the run (C10) and ends on every request to     *)
(* /callback that has no error.                                            *)
(***************************************************************************)
C36_BareCallbackNotFound ==
    \A p \in Callers :
        /\ (call[p].server = "listening" /\ call[p].settled = "pending") =>
              \A req \in Requests :
                  (/\ req.path = "/callback" /\ req.state = call[p].state
                   /\ ~Truthy(req.code) /\ ~Truthy(req.error)) =>
                      Handler(call[p], req, callbackServer)
                          = [call[p] EXCEPT !.http = 404]
        /\ (call[p].settled \in {"Succeeded", "Denied", "StateMismatch"}
              /\ call[p].cb # Null) =>
              \/ Truthy(call[p].cb.error)
              \/ call[p].cb.state # call[p].state
              \/ Truthy(call[p].cb.code) /\ call[p].cb.state = call[p].state


(***************************************************************************)
(* C37: a request to /callback without an error parameter whose state is   *)
(* missing or is not the state of the run ends the pending listener as     *)
(* StateMismatch, with or without a code: the server is closed and the     *)
(* attempt has failed, and no later request changes that outcome.  The     *)
(* code does not hold it: the listener without state check (C9) answers    *)
(* such a request 404 or takes its code.                                   *)
(***************************************************************************)
C37_StrayCallbackEndsAttempt ==
    \A p \in Callers :
        /\ (call[p].server = "listening" /\ call[p].settled = "pending") =>
              \A req \in Requests :
                  (/\ req.path = "/callback" /\ ~Truthy(req.error)
                   /\ req.state # call[p].state) =>
                      LET c == Handler(call[p], req, callbackServer)
                      IN  /\ c.settled = "StateMismatch" /\ c.http = 400
                          /\ c.server = "closed" /\ c.code = NULL
                          /\ c.flowError.message
                                = "OAuth state mismatch - possible CSRF attack"
        /\ call[p].settled = "StateMismatch" =>
              /\ call[p].server # "listening"
              /\ \A req \in Requests :
                    Handler(call[p], req, callbackServer).settled = "StateMismatch"


(***************************************************************************)
(* C38: under concurrent getValidToken and doInteractiveAuth calls the     *)
(* store does not regress: when two calls have saved the TokenSets of two  *)
(* token exchanges and both have returned, the store does not hold the     *)
(* TokenSet of the exchange that completed first.  Checked under ConcSpec. *)
(* The code does not hold it: the saves are not ordered by the exchanges.  *)
(***************************************************************************)
C38_StoreNeverRegresses ==
    \A p, q \in Callers :
        (/\ ReturnedOk(call[p]) /\ ReturnedOk(call[q])
         /\ Has(call[p].log, "save") /\ Has(call[q].log, "save")
         /\ call[p].order < call[q].order
         /\ call[p].saving # call[q].saving)
        => load(file) # call[p].saving


(***************************************************************************)
(* C39: getValidToken is idempotent once the credentials are fresh.  After *)
(* a getValidToken call that succeeded by a refresh or by the interactive  *)
(* flow, the store holds the TokenSet it returned; a second call whose     *)
(* load resolves more than 60 seconds before that TokenSet expires, with   *)
(* the store unchanged, returns the same TokenSet and calls neither        *)
(* refreshToken nor authorize nor save.  Checked under SeqSpec.            *)
(***************************************************************************)
FirstSucceeded ==
    /\ call["c1"].op = "getValidToken" /\ ReturnedOk(call["c1"])
    /\ Has(call["c1"].log, "save")

C39_SecondCallStep ==
    (/\ FirstSucceeded
     /\ call["c2"].op = "getValidToken"
     /\ call["c2"].pc = "load" /\ call'["c2"].pc # "load"
     /\ file # Missing
     /\ call["c1"].ret.value.expires_at - EXPIRY_BUFFER_MS > now)
    => /\ ReturnedOk(call'["c2"])
       /\ call'["c2"].ret.value = call["c1"].ret.value
       /\ call'["c2"].log = <<Ev("load", Null)>>
       /\ call'["c2"].body = Null /\ call'["c2"].authUrl = Null
       /\ call'["c2"].saving = Null
       /\ file' = file

C39_IdempotentOnceFresh ==
    /\ [](FirstSucceeded /\ call["c2"].pc \in {"idle", "load"} /\ file # Missing
            => file = Written(call["c1"].ret.value))
    /\ [][C39_SecondCallStep]_vars

\* a first call refreshed and saved; a minute later the second call returned
\* the same TokenSet after its load alone
C39_Witness ==
    /\ FirstSucceeded
    /\ Has(call["c1"].log, "refreshToken")
    /\ call["c2"].op = "getValidToken" /\ ReturnedOk(call["c2"])
    /\ call["c2"].log = <<Ev("load", Null)>>
    /\ call["c2"].ret.value = call["c1"].ret.value
    /\ file = Written(call["c1"].ret.value)
    /\ now > 0


(***************************************************************************)
(* C40: the listener started by the interactive flow is bound to the port  *)
(* of the configured redirect URI: the redirect_uri placed in the          *)
(* authorization URL names the port the listener binds and listens on,     *)
(* for every configured redirect URI.  Checked under RedirectSpec.  The    *)
(* code does not hold it: doInteractiveAuth calls authorize() without a    *)
(* port, and the listener binds the default port.                          *)
(***************************************************************************)
C40_ListenerOnRedirectPort ==
    \A p \in Callers :
        call[p].server \in {"binding", "listening"} =>
            /\ call[p].authUrl.redirect_uri = redirectUri
            /\ call[p].port = PortOf(call[p].authUrl.redirect_uri)

====
